---- MODULE Spec2Model ----
(***************************************************************************)
(* Model of the invoice extraction pipeline (src/invoice_pipeline.py) and  *)
(* of the guard of its caller (src/app.py).                                *)
(*                                                                         *)
(* Texts are TLA+ strings, read character by character.  The regular      *)
(* expressions of the source are written as patterns (sequences of        *)
(* character classes, alternations, groups and anchors) and run by a      *)
(* matcher with the priorities of Python's backtracking re module:        *)
(* leftmost start, greedy repetition, alternatives in order.              *)
(*                                                                         *)
(* A float is the integer count of 1/2000ths it stands for (UNIT): every   *)
(* decimal with at most three fraction digits, and the half of one, is     *)
(* exact in that unit.  The texts of the model hold no number with more    *)
(* than three fraction digits.  round(x, 2) goes to the nearest cent; when *)
(* the exact value is half way between two cents the binary float lies on  *)
(* either side of it, so the variable ties, fixed at the start, says on    *)
(* which.  The tax split is checked with ties going up and with ties going *)
(* down; the documents of the other specifications hold no amount that     *)
(* meets a tie, and there ties is pinned.                                  *)
(***************************************************************************)
EXTENDS Integers, Sequences, FiniteSets, TLC

VARIABLES
  disk,        \* the files of the upload directory, by path
  pc,          \* position of the program (or of the function under check)
  file_paths,  \* run_invoice_pipeline: the batch, a sequence of paths
  cur,         \* run_invoice_pipeline: number of files already processed
  all_rows,    \* run_invoice_pipeline: the accumulated rows
  df,          \* run_invoice_pipeline: the returned table
  arg,         \* the input of the function applied on its own
  res,         \* its result
  ties         \* round(): where the float next to an exact tie lies

vars == <<disk, pc, file_paths, cur, all_rows, df, arg, res, ties>>

(***************************************************************************)
(* Characters and strings                                                  *)
(***************************************************************************)
UPPERS == "ABCDEFGHIJKLMNOPQRSTUVWXYZ"
LOWERS == "abcdefghijklmnopqrstuvwxyz"
DIGITS == "0123456789"

Ch(s, p) == SubSeq(s, p, p)
CharsOf(str) == {Ch(str, i) : i \in 1..Len(str)}
UPPER == CharsOf(UPPERS)
LOWER == CharsOf(LOWERS)
DIGIT == CharsOf(DIGITS)
ALPHA == UPPER \cup LOWER
\* \w of re
WORDCH == ALPHA \cup DIGIT \cup {"_"}
\* \s of re, and the characters str.strip() removes
WS == {" ", "\t", "\n"}

IndexIn(str, c) == CHOOSE j \in 1..Len(str) : Ch(str, j) = c
\* the other case of a letter (re.I)
Swap(c) ==
  IF c \in UPPER THEN Ch(LOWERS, IndexIn(UPPERS, c))
  ELSE IF c \in LOWER THEN Ch(UPPERS, IndexIn(LOWERS, c))
  ELSE c

MinOf(S) == CHOOSE n \in S : \A m \in S : n <= m
MaxOf(S) == CHOOSE n \in S : \A m \in S : m <= n

\* s.strip(chars)
Between(s, keep) == IF keep = {} THEN "" ELSE SubSeq(s, MinOf(keep), MaxOf(keep))
StripChars(s, cs) == Between(s, {i \in 1..Len(s) : Ch(s, i) \notin cs})
\* s.strip()
Strip(s) == StripChars(s, WS)
\* s.rstrip()
UpTo(s, keep) == IF keep = {} THEN "" ELSE SubSeq(s, 1, MaxOf(keep))
RStrip(s) == UpTo(s, {i \in 1..Len(s) : Ch(s, i) \notin WS})

RECURSIVE Concat(_, _, _)
\* parts[a] \o ... \o parts[b], split in halves
Concat(parts, a, b) ==
  IF a > b THEN ""
  ELSE IF a = b THEN parts[a]
  ELSE Concat(parts, a, (a + b) \div 2) \o Concat(parts, (a + b) \div 2 + 1, b)
\* the characters of s at the positions keep, in order
CharsAt(s, keep) == Concat([i \in 1..Len(s) |-> IF i \in keep THEN Ch(s, i) ELSE ""], 1, Len(s))
\* s.replace(a, b) for single characters a and b
Replace1(s, a, b) == Concat([i \in 1..Len(s) |-> IF Ch(s, i) = a THEN b ELSE Ch(s, i)], 1, Len(s))
\* sub in s (substring test)
Contains(s, sub) == \E i \in 1..(Len(s) - Len(sub) + 1) : SubSeq(s, i, i + Len(sub) - 1) = sub
\* s.replace(c, "") for each character c of cs
RemoveChars(s, cs) == CharsAt(s, {i \in 1..Len(s) : Ch(s, i) \notin cs})
\* re.sub("[^cs]", "", s)
KeepChars(s, cs) == CharsAt(s, {i \in 1..Len(s) : Ch(s, i) \in cs})

\* text.splitlines(): the pieces between the line breaks (no piece after a
\* final line break)
SplitLines(text) ==
  LET nl == {i \in 1..Len(text) : Ch(text, i) = "\n"}
      cut(k) == IF k = 0 THEN 0
                ELSE IF k > Cardinality(nl) THEN Len(text) + 1
                ELSE CHOOSE i \in nl : Cardinality({j \in nl : j < i}) = k - 1
      n == IF text = "" THEN 0
           ELSE IF Ch(text, Len(text)) = "\n" THEN Cardinality(nl)
           ELSE Cardinality(nl) + 1
  IN [k \in 1..n |-> SubSeq(text, cut(k - 1) + 1, cut(k) - 1)]

\* sep.join(parts)
RECURSIVE Join(_, _)
Join(parts, sep) ==
  IF parts = <<>> THEN ""
  ELSE IF Len(parts) = 1 THEN parts[1]
  ELSE parts[1] \o sep \o Join(Tail(parts), sep)

\* os.path.basename(path)
basename(path) ==
  LET sl == {i \in 1..Len(path) : Ch(path, i) = "/"}
  IN IF sl = {} THEN path ELSE SubSeq(path, MaxOf(sl) + 1, Len(path))

(***************************************************************************)
(* Patterns and the matcher (module re)                                    *)
(***************************************************************************)
Elem(t, cs, neg, lo, hi, inf, g, alts, str) ==
  [t |-> t, cs |-> cs, neg |-> neg, lo |-> lo, hi |-> hi, inf |-> inf, g |-> g, alts |-> alts,
   str |-> str]
\* [cs]{lo,hi}
Rep(cs, lo, hi) == Elem("c", cs, FALSE, lo, hi, FALSE, 0, <<>>, "")
\* [cs]{lo,}
AtLeast(cs, lo) == Elem("c", cs, FALSE, lo, 0, TRUE, 0, <<>>, "")
\* [^cs]+
NotPlus(cs) == Elem("c", cs, TRUE, 1, 0, TRUE, 0, <<>>, "")
One(cs) == Rep(cs, 1, 1)
Opt(cs) == Rep(cs, 0, 1)
Plus(cs) == AtLeast(cs, 1)
Star(cs) == AtLeast(cs, 0)
\* (?:a|b|...)
Alt(alts) == Elem("a", {}, FALSE, 0, 0, FALSE, 0, alts, "")
\* (?:pat)?
Maybe(pat) == Alt(<<pat, <<>>>>)
Open(g) == Elem("(", {}, FALSE, 0, 0, FALSE, g, <<>>, "")
Close(g) == Elem(")", {}, FALSE, 0, 0, FALSE, g, <<>>, "")
\* (pat) as group g
Grp(g, pat) == <<Open(g)>> \o pat \o <<Close(g)>>
\* \b
WordB == Elem("b", {}, FALSE, 0, 0, FALSE, 0, <<>>, "")
\* ^
Bol == Elem("^", {}, FALSE, 0, 0, FALSE, 0, <<>>, "")
\* end of the string
Eol == Elem("$", {}, FALSE, 0, 0, FALSE, 0, <<>>, "")
\* a literal string
Lit(str) == <<Elem("l", {}, FALSE, 0, 0, FALSE, 0, <<>>, str)>>
\* a literal string under re.I
LitI(str) ==
  <<Elem("i", {}, FALSE, 0, 0, FALSE, 0,
         [i \in 1..Len(str) |-> {Ch(str, i), Swap(Ch(str, i))}], str)>>
\* (?:w1|w2|...) of literal words under re.I
Words(ws) == Alt([i \in 1..Len(ws) |-> LitI(ws[i])])

IsWordAt(s, p) == p >= 1 /\ p <= Len(s) /\ Ch(s, p) \in WORDCH
InCls(e, c) == (c \in e.cs) # e.neg

\* the most characters e may take from p: what is left of s, at most e.hi
Limit(s, p, e) ==
  IF e.inf \/ Len(s) - p + 1 < e.hi THEN MaxOf({0, Len(s) - p + 1}) ELSE e.hi
\* the first n of 0..lim where the characters of e's class end
RunTo(s, p, e, lim) ==
  CHOOSE n \in 0..lim : /\ n = lim \/ ~InCls(e, Ch(s, p + n))
                        /\ \A k \in 0..(n - 1) : InCls(e, Ch(s, p + k))
\* the longest run of characters of e's class from p, at most e.hi long
Run(s, p, e) == RunTo(s, p, e, Limit(s, p, e))

\* the literal of e stands at p
LitAt(s, p, e) ==
  /\ p + Len(e.str) - 1 <= Len(s)
  /\ IF e.t = "i" THEN \A i \in 1..Len(e.str) : Ch(s, p + i - 1) \in e.alts[i]
     ELSE SubSeq(s, p, p + Len(e.str) - 1) = e.str

\* every position of s, the end included
Positions(s) == 1..(Len(s) + 1)

RECURSIVE Ends(_, _, _, _, _)
\* the positions where a match of pat[i..j] can end when it starts at a
\* position of P (a pattern is split in halves, not walked element by element)
Ends(s, pat, i, j, P) ==
  IF P = {} \/ i > j THEN P
  ELSE IF i < j
  THEN LET mid == (i + j) \div 2 IN Ends(s, pat, mid + 1, j, Ends(s, pat, i, mid, P))
  ELSE LET e == pat[i]
       IN CASE e.t = "c" -> UNION {{q + n : n \in e.lo..Run(s, q, e)} : q \in P}
            [] e.t \in {"l", "i"} -> {q + Len(e.str) : q \in {r \in P : LitAt(s, r, e)}}
            [] e.t = "a" -> UNION {Ends(s, e.alts[k], 1, Len(e.alts[k]), P) : k \in 1..Len(e.alts)}
            [] e.t = "b" -> {q \in P : IsWordAt(s, q - 1) # IsWordAt(s, q)}
            [] e.t = "^" -> P \cap {1}
            [] e.t = "$" -> P \cap {Len(s) + 1}
            [] OTHER -> P

RECURSIVE Begins(_, _, _, _, _)
\* the positions where e can start a match that ends at a position of Q
Begin1(s, e, Q) ==
  CASE e.t = "c" -> {p \in Positions(s) : \E n \in e.lo..Run(s, p, e) : p + n \in Q}
    [] e.t \in {"l", "i"} -> {p \in {q - Len(e.str) : q \in Q} : p >= 1 /\ LitAt(s, p, e)}
    [] e.t = "a" -> UNION {(Begins(s, e.alts[k], 1, Len(e.alts[k]), Q) \o <<Q>>)[1] :
                             k \in 1..Len(e.alts)}
    [] e.t = "b" -> {q \in Q : IsWordAt(s, q - 1) # IsWordAt(s, q)}
    [] e.t = "^" -> Q \cap {1}
    [] e.t = "$" -> Q \cap {Len(s) + 1}
    [] OTHER -> Q
\* the sets for pat[i..mid] put before those for pat[mid+1..j]
Before(s, pat, i, mid, right) ==
  IF right = <<>> THEN right ELSE Begins(s, pat, i, mid, right[1]) \o right
\* for each k of i..j the positions where pat[k..j] can start a match that
\* ends at a position of Q
Begins(s, pat, i, j, Q) ==
  IF i > j THEN <<>>
  ELSE IF i = j THEN <<Positions(s) \cap Begin1(s, pat[i], Q)>>
  ELSE Before(s, pat, i, (i + j) \div 2, Begins(s, pat, (i + j) \div 2 + 1, j, Q))
\* the same for the whole of pat, and Q itself as the last member
Froms(s, pat, Q) == Begins(s, pat, 1, Len(pat), Q) \o <<Q>>

NoMatch == [ok |-> FALSE, end |-> 0, caps |-> <<>>]
Took(p, caps) == [ok |-> TRUE, end |-> p, caps |-> caps]

RECURSIVE Walk(_, _, _, _, _, _, _)
\* the second half of pat[i..j] walked from where the first half ended
Then(s, pat, B, j, mid, half) ==
  IF half.ok THEN Walk(s, pat, B, mid + 1, j, half.end, half.caps) ELSE NoMatch
\* the first alternative of e that can start at p and end where the rest of
\* the pattern goes on (G)
FirstAlt(s, e, p, G) ==
  MinOf({k \in 1..Len(e.alts) : p \in Froms(s, e.alts[k], G)[1]})
WalkAlt(s, alt, p, caps, G) ==
  Walk(s, alt, Froms(s, alt, G), 1, Len(alt), p, caps)
\* the match of pat[i..j] at p that a backtracking matcher finds first: each
\* element takes its first choice (the longest run, the first alternative)
\* after which the rest of pat can still match; B[k] holds the positions
\* where pat[k..] can start, and p is one of B[i]
Walk(s, pat, B, i, j, p, caps) ==
  IF i > j THEN Took(p, caps)
  ELSE IF i < j
  THEN Then(s, pat, B, j, (i + j) \div 2, Walk(s, pat, B, i, (i + j) \div 2, p, caps))
  ELSE CASE pat[i].t = "c" ->
              Took(p + MaxOf({n \in pat[i].lo..Run(s, p, pat[i]) : p + n \in B[i + 1]}), caps)
         [] pat[i].t \in {"l", "i"} -> Took(p + Len(pat[i].str), caps)
         [] pat[i].t = "a" ->
              WalkAlt(s, pat[i].alts[FirstAlt(s, pat[i], p, B[i + 1])], p, caps, B[i + 1])
         [] pat[i].t = "(" -> Took(p, (pat[i].g :> <<p, p>>) @@ caps)
         [] pat[i].t = ")" -> Took(p, (pat[i].g :> <<caps[pat[i].g][1], p>>) @@ caps)
         [] OTHER -> Took(p, caps)

NoHit == [ok |-> FALSE, start |-> 0, end |-> 0, caps |-> <<>>]
\* the match object of a match r that starts at first
Hit(first, r) ==
  IF r.ok THEN [ok |-> TRUE, start |-> first, end |-> r.end, caps |-> r.caps] ELSE NoHit
\* the match of pat that starts at the first position of starts
HitAt(pat, s, B, starts) ==
  IF starts = {} THEN NoHit
  ELSE Hit(MinOf(starts), Walk(s, pat, B, 1, Len(pat), MinOf(starts), <<>>))
\* the match of pat at the leftmost start within P
HitIn(pat, s, B, P) == HitAt(pat, s, B, B[1] \cap P)
\* re.search(pat, s) is not None
Searches(pat, s) == Ends(s, pat, 1, Len(pat), Positions(s)) # {}
\* re.match(pat, s) is not None
Matches(pat, s) == Ends(s, pat, 1, Len(pat), {1}) # {}
\* re.match(pat, s)
re_match(pat, s) ==
  IF ~Matches(pat, s) THEN NoHit
  ELSE HitIn(pat, s, Froms(s, pat, Positions(s)), {1})
\* re.search(pat, s): the match at the leftmost start
re_search(pat, s) ==
  IF ~Searches(pat, s) THEN NoHit
  ELSE HitIn(pat, s, Froms(s, pat, Positions(s)), Positions(s))
\* where the search goes on after the match m
After(m) == IF m.end > m.start THEN m.end ELSE m.start + 1
RECURSIVE FindFrom(_, _, _, _)
\* the match m and those after it
FindNext(pat, s, B, m) ==
  IF ~m.ok THEN <<>>
  ELSE <<[start |-> m.start, end |-> m.end]>> \o FindFrom(pat, s, B, After(m))
\* every match of pat from p on, left to right without overlap
FindFrom(pat, s, B, p) == FindNext(pat, s, B, HitIn(pat, s, B, p..(Len(s) + 1)))
\* list(pattern.finditer(s))
finditer(pat, s) == FindFrom(pat, s, Froms(s, pat, Positions(s)), 1)
\* m.group(g)
group(s, m, g) == SubSeq(s, m.caps[g][1], m.caps[g][2] - 1)

(***************************************************************************)
(* Numbers: safe_float, round, apply_tax_split                             *)
(***************************************************************************)
\* a float x is the integer x * UNIT
UNIT == 2 * 1000
\* one hundredth (the grain of round(x, 2)) in units
CENT == UNIT \div 100
\* None, and a float as a value that may be None
None == <<>>
Float(v) == <<v>>
Val(opt) == opt[1]

DigitValue(c) == IndexIn(DIGITS, c) - 1
RECURSIVE DigitsValue(_)
\* the number a string of digits writes
DigitsValue(str) ==
  IF str = "" THEN 0
  ELSE 10 * DigitsValue(SubSeq(str, 1, Len(str) - 1)) + DigitValue(Ch(str, Len(str)))

\* what float() accepts of a string of digits, "." and "-"
FLOAT_RE ==
  <<Bol, Opt({"-"}),
    Alt(<<Grp(1, <<Plus(DIGIT)>>) \o <<Maybe(<<One({"."})>> \o Grp(2, <<Star(DIGIT)>>))>>,
          <<One({"."})>> \o Grp(2, <<Plus(DIGIT)>>)>>),
    Eol>>

\* float(str) for a match m of FLOAT_RE: the value in units, or the ValueError
FloatOf(str, m) ==
  IF ~m.ok THEN [ok |-> FALSE, v |-> 0]
  ELSE LET ip == IF 1 \in DOMAIN m.caps THEN DigitsValue(group(str, m, 1)) ELSE 0
           fd == IF 2 \in DOMAIN m.caps THEN group(str, m, 2) ELSE ""
           mag == ip * UNIT + DigitsValue(SubSeq(fd \o "000", 1, 3)) * (UNIT \div 1000)
       IN [ok |-> TRUE, v |-> IF Ch(str, 1) = "-" THEN 0 - mag ELSE mag]
\* float(str)
ParseFloat(str) == FloatOf(str, re_match(FLOAT_RE, str))

\* the float f, or the default at a ValueError
OrDefault(f, default) == IF f.ok THEN Float(f.v) ELSE default
\* safe_float once s is stripped and rid of "," and " "
Coerce(s1, default) ==
  IF s1 \in {"", "nan", "None"} THEN default
  ELSE OrDefault(ParseFloat(KeepChars(s1, DIGIT \cup {".", "-"})), default)
\* safe_float(s, default); default and result are values that may be None
safe_float(s, default) == Coerce(RemoveChars(Strip(s), {",", " "}), default)

TieSide == {"up", "down"}
\* round(x, 2) in cents of x = floor + rem / den cents, x >= 0: the nearest
\* cent, and at an exact tie the side the float lies on
RoundCents(floor, rem, den) ==
  IF 2 * rem > den THEN floor + 1
  ELSE IF 2 * rem < den THEN floor
  ELSE IF ties = "up" THEN floor + 1 ELSE floor

\* round(amount * rate / 100.0, 2) in units; amount and rate in units, >= 0
RoundedTax(amount, rate) ==
  LET a1 == amount \div UNIT
      a0 == amount % UNIT
      den == UNIT * UNIT
      q1 == (a1 * rate) \div UNIT
      r1 == (a1 * rate) % UNIT
      n2 == r1 * UNIT + a0 * rate
  IN CENT * RoundCents(q1 + n2 \div den, n2 % den, den)

\* round(x, 2) of a float in units, x >= 0
Round2(x) == CENT * RoundCents(x \div CENT, x % CENT, CENT)

\* str.startswith
StartsWith(s, prefix) == Len(s) >= Len(prefix) /\ SubSeq(s, 1, Len(prefix)) = prefix

\* apply_tax_split with the rate left whole in the split branch
apply_tax_split_NoHalving(supplier_gstin, taxable_amt, gst_rate) ==
  IF StartsWith(supplier_gstin, "29")
  THEN [cgst_rate |-> gst_rate, cgst_amt |-> RoundedTax(taxable_amt, gst_rate),
        sgst_rate |-> gst_rate, sgst_amt |-> RoundedTax(taxable_amt, gst_rate),
        igst_rate |-> 0, igst_amt |-> 0]
  ELSE [cgst_rate |-> 0, cgst_amt |-> 0, sgst_rate |-> 0, sgst_amt |-> 0,
        igst_rate |-> gst_rate, igst_amt |-> RoundedTax(taxable_amt, gst_rate)]

\* apply_tax_split(taxable_amt, gst_rate), closed over supplier_gstin
apply_tax_split(supplier_gstin, taxable_amt, gst_rate) ==
  IF StartsWith(supplier_gstin, "29")
  THEN LET half == gst_rate \div 2
       IN [cgst_rate |-> half, cgst_amt |-> RoundedTax(taxable_amt, half),
           sgst_rate |-> half, sgst_amt |-> RoundedTax(taxable_amt, half),
           igst_rate |-> 0, igst_amt |-> 0]
  ELSE [cgst_rate |-> 0, cgst_amt |-> 0, sgst_rate |-> 0, sgst_amt |-> 0,
        igst_rate |-> gst_rate, igst_amt |-> RoundedTax(taxable_amt, gst_rate)]


(***************************************************************************)
(* Text Normalizer and Item Block Segmenter (extract_invoice_data)         *)
(***************************************************************************)
\* lines = [ln for ln in text.splitlines() if ln and ln.strip()]
NormalizeLines(text) ==
  LET keep(ln) == ln # "" /\ Strip(ln) # ""
  IN SelectSeq(SplitLines(text), keep)

\* r"Details of Goods(?: / Services)?"  (re.I)
DETAILS_RE == LitI("Details of Goods") \o <<Maybe(LitI(" / Services"))>>
\* r"Taxable\s+Amt|Total Inv"  (re.I)
BLOCK_END_RE == <<Alt(<<LitI("Taxable") \o <<Plus(WS)>> \o LitI("Amt"), LitI("Total Inv")>>)>>
\* r"\bSr(\.| )?No\b"  (re.I)
SR_NO_RE ==
  <<WordB>> \o LitI("Sr") \o <<Maybe(Grp(1, <<Alt(<<Lit("."), Lit(" ")>>)>>))>> \o LitI("No") \o <<WordB>>
\* r"^\s*\d+\s+"
ITEM_START_RE == <<Bol, Star(WS), Plus(DIGIT), Plus(WS)>>

IsDetailsLine(ln) == Searches(DETAILS_RE, ln)
IsBlockEndLine(ln) == Searches(BLOCK_END_RE, ln)
IsSrNoLine(ln) == Searches(SR_NO_RE, ln)
IsItemStart(ln) == Matches(ITEM_START_RE, ln)

\* lines[idx: idx+200]
WINDOW == 200

\* the loop over lines that collects the lines after a "Details of Goods"
\* label, up to and including the first line that ends the block
RECURSIVE CaptureLoop(_, _, _, _)
CaptureLoop(lines, i, capture, collected) ==
  IF i > Len(lines) THEN collected
  ELSE IF IsDetailsLine(lines[i]) THEN CaptureLoop(lines, i + 1, TRUE, collected)
  ELSE IF capture
       THEN IF IsBlockEndLine(lines[i]) THEN Append(collected, lines[i])
            ELSE CaptureLoop(lines, i + 1, TRUE, Append(collected, lines[i]))
       ELSE CaptureLoop(lines, i + 1, FALSE, collected)

\* lines[idx: idx+200] for the first idx of hits, [] without one
WindowFrom(lines, hits) ==
  IF hits = {} THEN <<>>
  ELSE SubSeq(lines, MinOf(hits),
              IF MinOf(hits) + WINDOW - 1 < Len(lines) THEN MinOf(hits) + WINDOW - 1
              ELSE Len(lines))
\* the first "Sr No" line and the lines after it, WINDOW lines in all
SrNoWindow(lines) == WindowFrom(lines, {i \in 1..Len(lines) : IsSrNoLine(lines[i])})

\* "if not item_lines_collected: item_lines_collected = ..."
OrElse(collected, otherwise) == IF collected = <<>> THEN otherwise ELSE collected

\* CollectItemBlock with the first two steps in the wrong order
CollectItemBlock_SrNoFirst(lines) ==
  OrElse(OrElse(SrNoWindow(lines), CaptureLoop(lines, 1, FALSE, <<>>)), lines)

\* item_lines_collected: the captured block; if it is empty the "Sr No"
\* window; if that is empty too, every line
CollectItemBlock(lines) ==
  OrElse(OrElse(CaptureLoop(lines, 1, FALSE, <<>>), SrNoWindow(lines)), lines)

\* the loop that groups the collected lines into items
RECURSIVE GroupLoop(_, _, _, _)
GroupLoop(collected, i, items, current) ==
  IF i > Len(collected)
  THEN IF current # <<>> THEN Append(items, current) ELSE items
  ELSE IF IsItemStart(collected[i])
       THEN GroupLoop(collected, i + 1,
                      IF current # <<>> THEN Append(items, current) ELSE items,
                      <<collected[i]>>)
       ELSE GroupLoop(collected, i + 1, items,
                      IF current # <<>> THEN Append(current, collected[i]) ELSE current)
\* all but the last
ButLast(seq) == IF seq = <<>> THEN <<>> ELSE SubSeq(seq, 1, Len(seq) - 1)
\* GroupItems without the append of the last group after the loop
GroupItems_NoFlush(collected) == ButLast(GroupLoop(collected, 1, <<>>, <<>>))

GroupItems(collected) == GroupLoop(collected, 1, <<>>, <<>>)


(***************************************************************************)
(* Supplier Block Locator (find_supplier_block)                            *)
(***************************************************************************)
\* r'\b([0-9A-Z]{15})\b'
GSTIN_RE == <<WordB>> \o Grp(1, <<Rep(DIGIT \cup UPPER, 15, 15)>>) \o <<WordB>>
\* r'(Despatch\s*From|Dispatch\s*From|Ship\s*To|Bill\s*To|Buyer|Consignee|Details\s*of\s*Goods)'  (re.I)
SECTION_BREAK_RE ==
  Grp(1, <<Alt(<<LitI("Despatch") \o <<Star(WS)>> \o LitI("From"),
                 LitI("Dispatch") \o <<Star(WS)>> \o LitI("From"),
                 LitI("Ship") \o <<Star(WS)>> \o LitI("To"),
                 LitI("Bill") \o <<Star(WS)>> \o LitI("To"),
                 LitI("Buyer"),
                 LitI("Consignee"),
                 LitI("Details") \o <<Star(WS)>> \o LitI("of") \o <<Star(WS)>> \o LitI("Goods")>>)>>)
\* r'\b(road|rd\.?|street|st\.?|lane|nagar|post|p\.o\.|no\.?\s*\d|floor|block|phase|industrial|estate|area|sector|park|city|pin|pincode|zip|india|tel|phone|email)\b|\b\d{5,6}\b'  (re.I)
ADDRESS_HINT_RE ==
  <<Alt(<< <<WordB>>
           \o Grp(1, <<Alt(<<LitI("road"),
                             LitI("rd") \o <<Opt({"."})>>,
                             LitI("street"),
                             LitI("st") \o <<Opt({"."})>>,
                             LitI("lane"), LitI("nagar"), LitI("post"),
                             LitI("p.o."),
                             LitI("no") \o <<Opt({"."}), Star(WS), One(DIGIT)>>,
                             LitI("floor"), LitI("block"), LitI("phase"), LitI("industrial"),
                             LitI("estate"), LitI("area"), LitI("sector"), LitI("park"),
                             LitI("city"), LitI("pin"), LitI("pincode"), LitI("zip"),
                             LitI("india"), LitI("tel"), LitI("phone"), LitI("email")>>)>>)
           \o <<WordB>>,
           <<WordB, Rep(DIGIT, 5, 6), WordB>> >>)>>
\* r'\b(PVT|PRIVATE|LTD|LIMITED|LLP|INC|CO\.?|COMPANY|DEPARTMENT)\b'  (re.I)
NAME_HINT_RE ==
  <<WordB>>
  \o Grp(1, <<Alt(<<LitI("PVT"), LitI("PRIVATE"), LitI("LTD"), LitI("LIMITED"), LitI("LLP"),
                    LitI("INC"), LitI("CO") \o <<Opt({"."})>>, LitI("COMPANY"),
                    LitI("DEPARTMENT")>>)>>)
  \o <<WordB>>
\* r'[A-Za-z]'
LETTER_RE == <<One(ALPHA)>>
\* r'\bSupplier\b' and r'\bRecipient\b'  (re.I)
SUPPLIER_WORD_RE == <<WordB>> \o LitI("Supplier") \o <<WordB>>
RECIPIENT_WORD_RE == <<WordB>> \o LitI("Recipient") \o <<WordB>>
\* r'^\s*Supplier\b' and r'^\s*Recipient\b'  (re.I)
SUPPLIER_LABEL_RE == <<Bol, Star(WS)>> \o LitI("Supplier") \o <<WordB>>
RECIPIENT_LABEL_RE == <<Bol, Star(WS)>> \o LitI("Recipient") \o <<WordB>>

\* re.sub(r'\s{2,}', ' ', s): each run of two or more blanks becomes a space
CollapseBlanks(s) ==
  LET isWs(i) == i >= 1 /\ i <= Len(s) /\ Ch(s, i) \in WS
      piece(i) == IF ~isWs(i) THEN Ch(s, i)
                  ELSE IF isWs(i - 1) THEN ""
                  ELSE IF isWs(i + 1) THEN " " ELSE Ch(s, i)
  IN Concat([i \in 1..Len(s) |-> piece(i)], 1, Len(s))

\* clean_join(parts)
clean_join(parts) ==
  LET filled(q) == q # "" /\ Strip(q) # ""
      kept == SelectSeq(parts, filled)
      trimmed == [i \in 1..Len(kept) |-> StripChars(kept[i], {" ", ",", ";"})]
  IN CollapseBlanks(StripChars(Join(trimmed, " "), {" ", ",", ";"}))

\* the test that sends a line of the block to the name lines
IsNameLine(i, line) ==
  \/ Searches(NAME_HINT_RE, line)
  \/ /\ i <= 2
     /\ Searches(LETTER_RE, line)
     /\ ~Searches(ADDRESS_HINT_RE, line)

\* group 1 of the first match of pat in s
FirstGroup(pat, s) == group(s, re_search(pat, s), 1)

RECURSIVE SplitLoop(_, _, _, _, _)
\* the loop of split_name_addr; i is enumerate's index (from 0)
SplitLoop(block, i, gst, name_lines, addr_lines) ==
  IF i >= Len(block) THEN <<gst, clean_join(name_lines), clean_join(addr_lines)>>
  ELSE IF Searches(GSTIN_RE, block[i + 1]) /\ gst = ""
       THEN SplitLoop(block, i + 1, FirstGroup(GSTIN_RE, block[i + 1]), name_lines, addr_lines)
       ELSE IF IsNameLine(i, block[i + 1])
            THEN SplitLoop(block, i + 1, gst, Append(name_lines, block[i + 1]), addr_lines)
            ELSE SplitLoop(block, i + 1, gst, name_lines, Append(addr_lines, block[i + 1]))
\* split_name_addr(block): <<gst, name, addr>>
split_name_addr(block) == SplitLoop(block, 0, "", <<>>, <<>>)

NotFound == <<"", "", "">>
Found(r) == r[1] # "" \/ r[2] # "" \/ r[3] # ""
IsSectionBreak(ln) == Searches(SECTION_BREAK_RE, ln)
NonEmpty(ln) == ln # ""

\* Lines are numbered from 1 here and from 0 in the source.
\* (left.end() + right.start()) // 2, counted from 0, of the first two tax IDs
SplitCol(toks) == ((toks[1].end - 1) + (toks[2].start - 1)) \div 2
\* ln[:split_col].rstrip() if len(ln) >= split_col else ln
LeftCell(ln, split_col) ==
  IF Len(ln) >= split_col THEN RStrip(SubSeq(ln, 1, split_col)) ELSE ln
\* the left cells of the rows j..last, up to the first section break
GridBlock(lines, j, last, split_col, breaks) ==
  SelectSeq([k \in 1..((IF breaks = {} THEN last ELSE MinOf(breaks) - 1) - j + 1) |->
               Strip(LeftCell(lines[j + k - 1], split_col))],
            NonEmpty)
\* the block below the header h when row j holds two tax IDs
GridRows(lines, h, j, last) ==
  split_name_addr(GridBlock(lines, j, last, SplitCol(finditer(GSTIN_RE, lines[j])),
                            {k \in j..last : IsSectionBreak(lines[k])}))
\* the rows of twos are those with two tax IDs among the five below h
GridBelow(lines, h, twos) ==
  IF twos = {} THEN NotFound
  ELSE GridRows(lines, h, MinOf(twos), IF h + 24 < Len(lines) THEN h + 24 ELSE Len(lines))
\* headers are the lines with both labels
GridUnder(lines, headers) ==
  IF headers = {} THEN NotFound
  ELSE GridBelow(lines, MinOf(headers),
                 {j \in (MinOf(headers) + 1)..
                          (IF MinOf(headers) + 5 < Len(lines) THEN MinOf(headers) + 5
                           ELSE Len(lines)) :
                    Len(finditer(GSTIN_RE, lines[j])) >= 2})
\* tier 1, the "Supplier ... Recipient" grid
GridTier(lines) ==
  GridUnder(lines, {i \in 1..Len(lines) : /\ Searches(SUPPLIER_WORD_RE, lines[i])
                                          /\ Searches(RECIPIENT_WORD_RE, lines[i])})

\* [ln.strip() for ln in lines[sup_idx+1:end_idx] if ln and ln.strip()]
SectionBlock(lines, sup, end) ==
  SelectSeq([k \in 1..(end - sup - 1) |-> Strip(lines[sup + k])], NonEmpty)
\* "if block: ..."
SplitIfAny(block) == IF block = <<>> THEN NotFound ELSE split_name_addr(block)
\* the slice from the label line sup to the first line of ends
SectionFrom(lines, sup, ends) ==
  SplitIfAny(SectionBlock(lines, sup, IF ends = {} THEN Len(lines) + 1 ELSE MinOf(ends)))
\* sups are the lines that begin with the label
SectionUnder(lines, sups) ==
  IF sups = {} THEN NotFound
  ELSE SectionFrom(lines, MinOf(sups),
                   {j \in (MinOf(sups) + 1)..Len(lines) :
                      \/ Searches(RECIPIENT_LABEL_RE, lines[j])
                      \/ IsSectionBreak(lines[j])})
\* tier 2, the section slice: the lines after the first line that begins
\* with "Supplier", up to the next "Recipient" label or section break
SectionTier(lines) ==
  SectionUnder(lines, {i \in 1..Len(lines) : Searches(SUPPLIER_LABEL_RE, lines[i])})

\* lines[max(0, line_idx-2): line_idx+10], stripped, without the empty ones
GenericBlock(lines, idx) ==
  SelectSeq([k \in 1..((IF idx + 9 < Len(lines) THEN idx + 9 ELSE Len(lines))
                       - (IF idx - 2 > 1 THEN idx - 2 ELSE 1) + 1) |->
               Strip(lines[(IF idx - 2 > 1 THEN idx - 2 ELSE 1) + k - 1])],
            NonEmpty)
\* (gst2 or gst), name, addr
OrGst(r, gst) == <<IF r[1] # "" THEN r[1] ELSE gst, r[2], r[3]>>
\* the lines around the first line that holds gst
GenericAround(lines, gst) ==
  OrGst(split_name_addr(GenericBlock(lines, MinOf({i \in 1..Len(lines) : Contains(lines[i], gst)}))),
        gst)
GenericIn(lines, joined) ==
  IF ~Searches(GSTIN_RE, joined) THEN NotFound
  ELSE GenericAround(lines, FirstGroup(GSTIN_RE, joined))
\* tier 3, the generic fallback: the lines around the first tax ID
GenericTier(lines) == GenericIn(lines, Join(lines, "\n"))

\* "if gst or name or addr: return gst, name, addr"
Prefer(found, otherwise) == IF Found(found) THEN found ELSE otherwise

\* find_supplier_block with the generic tier tried before the section slice
find_supplier_block_GenericFirst(lines) ==
  Prefer(GridTier(lines), Prefer(GenericTier(lines), SectionTier(lines)))

\* find_supplier_block(lines): <<gstin, name, address>>
find_supplier_block(lines) ==
  Prefer(GridTier(lines), Prefer(SectionTier(lines), GenericTier(lines)))

(***************************************************************************)
(* Text Acquirer (text_from_pdf)                                           *)
(***************************************************************************)
\* A file on disk is [opens, pages, ocr]: whether pdfplumber opens it, what
\* extract_text() gives for each page ("" for None), and what OCR would read.
USE_OCR == FALSE
\* "\n".join(t for t in pages_text if t).strip(), "" if the file does not open
TextLayer(f) == IF f.opens THEN Strip(Join(SelectSeq(f.pages, NonEmpty), "\n")) ELSE ""
\* the text layer if it has any text, else "" with OCR off, else the OCR text
LayerOrOcr(f, txt) == IF txt # "" THEN txt ELSE IF ~USE_OCR THEN "" ELSE Strip(f.ocr)
\* text_from_pdf(pdf_path)[0]
text_from_pdf(pdf_path) == LayerOrOcr(disk[pdf_path], TextLayer(disk[pdf_path]))

(***************************************************************************)
(* Header Extractor (extract_invoice_data, header fields)                  *)
(***************************************************************************)
HEX == DIGIT \cup CharsOf("ABCDEFabcdef")
\* \s*[:\-]?\s*
SEP == <<Star(WS), Opt({":", "-"}), Star(WS)>>
\* r"IRN"
IRN_LABEL_RE == Lit("IRN")
\* r"IRN\s*[:\-]?\s*([A-Fa-f0-9]+)"
IRN_RE == Lit("IRN") \o SEP \o Grp(1, <<Plus(HEX)>>)
\* str(e) of the AttributeError raised by (None,).group(1)
NO_GROUP == "'tuple' object has no attribute 'group'"
\* (m or (None,)).group(1)
GroupOrRaise(text, m) ==
  IF m.ok THEN [exc |-> "", v |-> group(text, m, 1)] ELSE [exc |-> NO_GROUP, v |-> ""]
\* the IRN expression: the value, or the exception it raises
IrnField(text) ==
  IF ~Searches(IRN_LABEL_RE, text) THEN [exc |-> "", v |-> ""]
  ELSE GroupOrRaise(text, re_search(IRN_RE, text))

\* the four invoice number patterns  (re.I)
INVOICE_NO_RES ==
  <<LitI("Document No") \o SEP \o Grp(1, <<NotPlus(WS)>>),
    LitI("Document") \o <<Star(WS)>> \o LitI("Number") \o SEP \o Grp(1, <<NotPlus(WS)>>),
    LitI("Invoice") \o <<Star(WS)>> \o LitI("No") \o <<Opt({"."})>> \o SEP \o Grp(1, <<NotPlus(WS)>>),
    LitI("Bill") \o <<Star(WS)>> \o LitI("No") \o <<Opt({"."})>> \o SEP \o Grp(1, <<NotPlus(WS)>>)>>
\* \d{2}[-/]\d{2}[-/]\d{4}
DMY == <<Rep(DIGIT, 2, 2), One({"-", "/"}), Rep(DIGIT, 2, 2), One({"-", "/"}), Rep(DIGIT, 4, 4)>>
\* the two date patterns  (re.I)
INVOICE_DATE_RES ==
  <<LitI("Document Date") \o SEP \o Grp(1, DMY),
    LitI("Date") \o SEP \o Grp(1, DMY)>>
\* [\d,]+\.\d{1,2}|\d+
AMOUNT == Alt(<< <<Plus(DIGIT \cup {","}), One({"."}), Rep(DIGIT, 1, 2)>>, <<Plus(DIGIT)>> >>)
\* the three footer total patterns  (re.I)
FOOTER_RES ==
  <<LitI("Total") \o <<Plus(WS)>> \o LitI("Inv") \o <<Opt({"."}), Opt({"."}), Star(WS)>>
      \o LitI("Amt") \o <<Star(WS), Star(WS \cup {":"})>> \o Grp(1, <<AMOUNT>>),
    LitI("Total") \o <<Plus(WS)>> \o LitI("Inv") \o <<Maybe(LitI("oice")), Star(WS)>>
      \o LitI("Amt") \o <<Star(WS), Star(WS \cup {":"})>> \o Grp(1, <<Plus(DIGIT \cup {",", "."})>>),
    LitI("Total") \o <<Plus(WS)>> \o LitI("Inv") \o <<Maybe(LitI("oice")), Opt({"."}), Star(WS)>>
      \o LitI("Amt") \o <<Star(WS \cup {"(", ")"} \cup ALPHA), Star(WS \cup {":"})>>
      \o Grp(1, <<AMOUNT>>)>>

\* group 1 of the first pattern of pats that is found in text ("for patt in
\* ...: if m: ...; break")
RECURSIVE FirstFound(_, _, _)
FirstFound(pats, text, i) ==
  IF i > Len(pats) THEN [ok |-> FALSE, v |-> ""]
  ELSE IF Searches(pats[i], text) THEN [ok |-> TRUE, v |-> FirstGroup(pats[i], text)]
  ELSE FirstFound(pats, text, i + 1)

\* "if mm: ... = mm.group(1).strip()"
StripOrEmpty(mm) == IF mm.ok THEN Strip(mm.v) ELSE ""
InvoiceNumber(text) == StripOrEmpty(FirstFound(INVOICE_NO_RES, text, 1))
InvoiceDate(text) == StripOrEmpty(FirstFound(INVOICE_DATE_RES, text, 1))
\* "if m: footer_total = safe_float(m.group(1), None)"
FloatOrNone(m) == IF m.ok THEN safe_float(m.v, None) ELSE None
\* footer_total: a float, or None
FooterTotal(text) == FloatOrNone(FirstFound(FOOTER_RES, text, 1))

(***************************************************************************)
(* Item Description Builder (build_description)                            *)
(***************************************************************************)
\* r"^\s*\d+\s+"
SERIAL_RE == <<Bol, Star(WS), Plus(DIGIT), Plus(WS)>>
\* r"\b\d{6,8}\b"
HSN_RE == <<WordB, Rep(DIGIT, 6, 8), WordB>>
\* the stoplist of column-header words  (re.I)
STOP_RE ==
  <<WordB>>
  \o Grp(1, <<Words(<<"Qty", "Quantity", "Unit", "Price", "Rate", "Tax", "Amount", "Total",
                       "HSN", "SGST", "CGST", "IGST", "Disc", "Discount", "Round off">>)>>)
  \o <<WordB>>
\* sum(ch.isdigit() ...), sum(ch.isalpha() ...)
CountIn(s, cs) == Cardinality({i \in 1..Len(s) : Ch(s, i) \in cs})
\* s.replace("  ", " "): pairs of spaces, left to right, become one space
ReplaceDoubleSpace(s) ==
  LET sp(i) == i >= 1 /\ i <= Len(s) /\ Ch(s, i) = " "
      runStart(i) == MaxOf({j \in 1..i : sp(j) /\ ~sp(j - 1)})
      second(i) == sp(i) /\ (i - runStart(i)) % 2 = 1
  IN CharsAt(s, {i \in 1..Len(s) : ~second(i)})

\* re.sub(r"^\s*\d+\s+", "", line)
DropSerial(line, serial) == IF serial.ok THEN SubSeq(line, serial.end, Len(line)) ELSE line
\* raw.strip(), and on the first line the serial number removed
DescLine(stripped, idx) ==
  IF idx = 0 THEN DropSerial(stripped, re_match(SERIAL_RE, stripped)) ELSE stripped
\* "if re.search(r"[A-Za-z]", left): parts.append(left)"
AppendIfLetters(parts, left) == IF Searches(LETTER_RE, left) THEN Append(parts, left) ELSE parts
\* line[:m.start()].strip()
LeftOf(line, m) == Strip(SubSeq(line, 1, m.start - 1))
\* whether a line without the code is kept
IsDescriptive(line) ==
  /\ Searches(LETTER_RE, line)
  /\ ~Searches(STOP_RE, line)
  /\ CountIn(line, ALPHA) >= CountIn(line, DIGIT)

RECURSIVE DescLoop(_, _, _, _)
RECURSIVE DescStep(_, _, _, _, _)
\* the loop of build_description; idx is enumerate's index (from 0)
DescLoop(item_lines, idx, parts, hsn_seen) ==
  IF idx >= Len(item_lines) THEN parts
  ELSE DescStep(item_lines, idx, parts, hsn_seen, DescLine(Strip(item_lines[idx + 1]), idx))
\* the body of the loop for the line of index idx
DescStep(item_lines, idx, parts, hsn_seen, line) ==
  IF ~hsn_seen /\ Searches(HSN_RE, line)
  THEN DescLoop(item_lines, idx + 1, AppendIfLetters(parts, LeftOf(line, re_search(HSN_RE, line))), TRUE)
  ELSE IF IsDescriptive(line)
       THEN DescLoop(item_lines, idx + 1, Append(parts, line), hsn_seen)
       ELSE DescLoop(item_lines, idx + 1, parts, hsn_seen)

\* the body of the loop without the flag: every line holding a code is
\* cut at the code
DescBody_Rescan(parts, hsn_seen, line) ==
  IF Searches(HSN_RE, line)
  THEN [parts |-> AppendIfLetters(parts, LeftOf(line, re_search(HSN_RE, line))), hsn_seen |-> TRUE]
  ELSE IF IsDescriptive(line)
       THEN [parts |-> Append(parts, line), hsn_seen |-> hsn_seen]
       ELSE [parts |-> parts, hsn_seen |-> hsn_seen]
\* one turn of the loop of build_description on the cleaned line: the
\* locals parts and hsn_seen after it
DescBody(parts, hsn_seen, line) ==
  IF ~hsn_seen /\ Searches(HSN_RE, line)
  THEN [parts |-> AppendIfLetters(parts, LeftOf(line, re_search(HSN_RE, line))), hsn_seen |-> TRUE]
  ELSE IF IsDescriptive(line)
       THEN [parts |-> Append(parts, line), hsn_seen |-> hsn_seen]
       ELSE [parts |-> parts, hsn_seen |-> hsn_seen]

\* build_description(item_lines)
build_description(item_lines) ==
  Strip(StripChars(ReplaceDoubleSpace(Join(SelectSeq(DescLoop(item_lines, 0, <<>>, FALSE), NonEmpty), " ")),
                   {" ", "~"}))

(***************************************************************************)
(* Item Numeric Parser and Totals (extract_invoice_data, per item)         *)
(***************************************************************************)
\* [\d,]+\.\d+|\d+
NUM_A == Alt(<< <<Plus(DIGIT \cup {","}), One({"."}), Plus(DIGIT)>>, <<Plus(DIGIT)>> >>)
\* [\d,.,]+\.\d+|\d+
NUM_B == Alt(<< <<Plus(DIGIT \cup {",", "."}), One({"."}), Plus(DIGIT)>>, <<Plus(DIGIT)>> >>)
\* \d{1,2}(?:\.\d+)?
RATE == <<Rep(DIGIT, 1, 2), Maybe(<<One({"."}), Plus(DIGIT)>>)>>
\* the primary pattern: code, quantity, unit, unit price, taxable, rate, total
PRIMARY_RE ==
  Grp(1, <<Rep(DIGIT, 4, 8)>>) \o <<Plus(WS)>>
  \o Grp(2, <<Plus(DIGIT), Maybe(<<One({"."}), Plus(DIGIT)>>)>>) \o <<Plus(WS)>>
  \o Grp(3, <<Rep(ALPHA, 1, 4)>>) \o <<Plus(WS)>>
  \o Grp(4, <<NUM_A>>) \o <<Plus(WS)>>
  \o Grp(5, <<NUM_B>>) \o <<Star(WS)>>
  \o Grp(6, RATE) \o <<Plus(WS)>>
  \o Grp(7, <<NUM_B>>)
\* the fallback pattern: code, unit price, taxable, rate, total
FALLBACK_RE ==
  Grp(1, <<Rep(DIGIT, 4, 8)>>) \o <<Plus(WS)>>
  \o Grp(2, <<NUM_A>>) \o <<Plus(WS)>>
  \o Grp(3, <<NUM_B>>) \o <<Plus(WS)>>
  \o Grp(4, RATE) \o <<Plus(WS)>>
  \o Grp(5, <<NUM_B>>)

\* " ".join(it).replace("\n", " ")
FlatText(it) == Replace1(Join(it, " "), "\n", " ")

\* the keys of a row, before and after the totals are stamped
ITEM_COLS ==
  {"Invoice number", "Invoice date", "Supplier GSTIN", "Supplier name", "Supplier address",
   "Item description", "Item HSN code", "Quantity", "Unit", "Unit Price", "Taxable Amount",
   "CGST Rate", "CGST Amount", "SGST Rate", "SGST Amount", "IGST Rate", "IGST Amount",
   "Invoice Footer Total", "IRN", "Source file"}
TOTAL_COLS == {"Total Taxable", "Total CGST", "Total SGST", "Total IGST", "Invoice Total"}

\* floats of an item that matched neither pattern
Unparsed == [taxable_amt |-> 0, cgst_a |-> 0, sgst_a |-> 0, igst_a |-> 0]

\* the dict "parsed" as it is first built
BlankRow(it, hdr) ==
  [c \in ITEM_COLS |->
     CASE c = "Invoice number" -> hdr.invoice_number
       [] c = "Invoice date" -> hdr.invoice_date
       [] c = "Supplier GSTIN" -> hdr.supplier_gstin
       [] c = "Supplier name" -> hdr.supplier_name
       [] c = "Supplier address" -> hdr.supplier_address
       [] c = "Item description" -> build_description(it)
       [] c \in {"Item HSN code", "Unit"} -> ""
       [] c \in {"Quantity", "Unit Price", "Taxable Amount"} -> None
       [] c = "Invoice Footer Total" -> hdr.footer_total
       [] c = "IRN" -> hdr.irn
       [] c = "Source file" -> hdr.source_file
       [] OTHER -> 0]
\* the two updates of a matched item and what it adds to the totals
WithSplit(row, taxable_amt, sp) ==
  [row |-> [c \in {"Taxable Amount", "CGST Rate", "CGST Amount", "SGST Rate",
                   "SGST Amount", "IGST Rate", "IGST Amount"} |->
              CASE c = "Taxable Amount" -> Float(taxable_amt)
                [] c = "CGST Rate" -> sp.cgst_rate
                [] c = "CGST Amount" -> sp.cgst_amt
                [] c = "SGST Rate" -> sp.sgst_rate
                [] c = "SGST Amount" -> sp.sgst_amt
                [] c = "IGST Rate" -> sp.igst_rate
                [] c = "IGST Amount" -> sp.igst_amt] @@ row,
   matched |-> TRUE,
   add |-> [taxable_amt |-> taxable_amt, cgst_a |-> sp.cgst_amt,
            sgst_a |-> sp.sgst_amt, igst_a |-> sp.igst_amt]]
Taxed(row, supplier_gstin, taxable_amt, gst_rate) ==
  WithSplit(row, taxable_amt, apply_tax_split(supplier_gstin, taxable_amt, gst_rate))
\* "if m:"
PrimaryItem(flat, m, parsed, hdr) ==
  Taxed([c \in {"Item HSN code", "Quantity", "Unit", "Unit Price"} |->
           CASE c = "Item HSN code" -> group(flat, m, 1)
             [] c = "Quantity" -> safe_float(group(flat, m, 2), Float(0))
             [] c = "Unit" -> group(flat, m, 3)
             [] c = "Unit Price" -> safe_float(group(flat, m, 4), Float(0))] @@ parsed,
        hdr.supplier_gstin,
        Val(safe_float(group(flat, m, 5), Float(0))),
        Val(safe_float(group(flat, m, 6), Float(0))))
\* "elif fb:"
FallbackItem(flat, fb, parsed, hdr) ==
  Taxed([c \in {"Item HSN code", "Unit Price"} |->
           CASE c = "Item HSN code" -> group(flat, fb, 1)
             [] c = "Unit Price" -> safe_float(group(flat, fb, 2), Float(0))] @@ parsed,
        hdr.supplier_gstin,
        Val(safe_float(group(flat, fb, 3), Float(0))),
        Val(safe_float(group(flat, fb, 4), Float(0))))
\* the branches on the two matches m and fb
Matched(flat, m, fb, parsed, hdr) ==
  IF m.ok THEN PrimaryItem(flat, m, parsed, hdr)
  ELSE IF fb.ok THEN FallbackItem(flat, fb, parsed, hdr)
  ELSE [row |-> parsed, matched |-> FALSE, add |-> Unparsed]
ParseFlat(flat, parsed, hdr) ==
  Matched(flat, re_search(PRIMARY_RE, flat), re_search(FALLBACK_RE, flat), parsed, hdr)
\* one turn of "for it in items": the row, whether a pattern matched and
\* what the item adds to the totals; hdr holds the header fields
ParseItem(it, hdr) == ParseFlat(FlatText(it), BlankRow(it, hdr), hdr)

ZeroTotals == [total_taxable |-> 0, total_cgst |-> 0, total_sgst |-> 0, total_igst |-> 0]
\* "totals[...] += ..."
AddTo(totals, add) ==
  [total_taxable |-> totals.total_taxable + add.taxable_amt,
   total_cgst |-> totals.total_cgst + add.cgst_a,
   total_sgst |-> totals.total_sgst + add.sgst_a,
   total_igst |-> totals.total_igst + add.igst_a]
RECURSIVE ItemLoop(_, _, _, _, _)
RECURSIVE ItemTurn(_, _, _, _, _, _)
\* "for it in items": the rows and the running totals
ItemLoop(items, i, hdr, totals, rows_out) ==
  IF i > Len(items) THEN [totals |-> totals, rows_out |-> rows_out]
  ELSE ItemTurn(items, i, hdr, totals, rows_out, ParseItem(items[i], hdr))
\* the end of a turn: the totals grow, and the row is appended whether a
\* pattern matched or not
ItemTurn(items, i, hdr, totals, rows_out, turn) ==
  ItemLoop(items, i + 1, hdr, AddTo(totals, turn.add), Append(rows_out, turn.row))

\* the sum that stands in for a missing or zero footer total
SumOfTotals(totals) ==
  Round2(totals.total_taxable + totals.total_cgst + totals.total_sgst + totals.total_igst)
\* footer_total if footer_total is not None else 0.0
InitialTotal(footer_total) == IF footer_total # None THEN Val(footer_total) ELSE 0

\* totals["invoice_total"] with the footer total left out
invoice_total_SumOnly(footer_total, totals) == SumOfTotals(totals)

\* totals["invoice_total"] after the loop
invoice_total(footer_total, totals) ==
  IF InitialTotal(footer_total) = 0 THEN SumOfTotals(totals) ELSE InitialTotal(footer_total)

\* "for r in rows_out" with the totals left unrounded
StampTotals_Unrounded(rows_out, totals, inv_total) ==
  [k \in 1..Len(rows_out) |->
     [c \in TOTAL_COLS |->
        CASE c = "Total Taxable" -> totals.total_taxable
          [] c = "Total CGST" -> totals.total_cgst
          [] c = "Total SGST" -> totals.total_sgst
          [] c = "Total IGST" -> totals.total_igst
          [] c = "Invoice Total" -> inv_total] @@ rows_out[k]]

\* "for r in rows_out": every row gets the totals of the document
StampTotals(rows_out, totals, inv_total) ==
  [k \in 1..Len(rows_out) |->
     [c \in TOTAL_COLS |->
        CASE c = "Total Taxable" -> Round2(totals.total_taxable)
          [] c = "Total CGST" -> Round2(totals.total_cgst)
          [] c = "Total SGST" -> Round2(totals.total_sgst)
          [] c = "Total IGST" -> Round2(totals.total_igst)
          [] c = "Invoice Total" -> inv_total] @@ rows_out[k]]

\* the header fields
Header(pdf_path, text, irn, sup) ==
  [irn |-> irn,
   invoice_number |-> InvoiceNumber(text),
   invoice_date |-> InvoiceDate(text),
   supplier_gstin |-> sup[1], supplier_name |-> sup[2], supplier_address |-> sup[3],
   footer_total |-> FooterTotal(text),
   source_file |-> basename(pdf_path)]
\* the lines 278-287: the invoice total is settled and the rows are stamped
Stamped(hdr, done) ==
  [exc |-> "",
   rows |-> StampTotals(done.rows_out, done.totals, invoice_total(hdr.footer_total, done.totals))]
ExtractItems(hdr, items) == Stamped(hdr, ItemLoop(items, 1, hdr, ZeroTotals, <<>>))
\* from the IRN expression on
ExtractFields(pdf_path, text, lines, irn) ==
  IF irn.exc # "" THEN [exc |-> irn.exc, rows |-> <<>>]
  ELSE ExtractItems(Header(pdf_path, text, irn.v, find_supplier_block(lines)),
                    GroupItems(CollectItemBlock(lines)))
ExtractText(pdf_path, text) ==
  IF text = "" THEN [exc |-> "No text extracted", rows |-> <<>>]
  ELSE ExtractFields(pdf_path, text, NormalizeLines(text), IrnField(text))
\* extract_invoice_data(pdf_path): the rows, or str(e) of the exception raised
extract_invoice_data(pdf_path) == ExtractText(pdf_path, text_from_pdf(pdf_path))

(***************************************************************************)
(* Batch Driver (process_file, run_invoice_pipeline) and the upload page   *)
(***************************************************************************)
\* "except Exception as e"
Failed(path, error) == [path |-> path, rows |-> None, error |-> error]
\* process_file with an empty row list passed on as a success
KeepEmpty(path, r) ==
  IF r.exc # "" THEN Failed(path, r.exc) ELSE [path |-> path, rows |-> r.rows, error |-> ""]
process_file_KeepEmpty(path) == KeepEmpty(path, extract_invoice_data(path))

\* the body of process_file once extract_invoice_data has returned or raised
Outcome(path, r) ==
  IF r.exc # "" THEN Failed(path, r.exc)
  ELSE IF r.rows = <<>> THEN Failed(path, "No rows extracted")
  ELSE [path |-> path, rows |-> r.rows, error |-> ""]
\* process_file(path); error "" stands for None
process_file(path) == Outcome(path, extract_invoice_data(path))

\* the keys of a row in the order they are set, then the placeholder's status
ROW_KEYS ==
  <<"Invoice number", "Invoice date", "Supplier GSTIN", "Supplier name", "Supplier address",
    "Item description", "Item HSN code", "Quantity", "Unit", "Unit Price", "Taxable Amount",
    "CGST Rate", "CGST Amount", "SGST Rate", "SGST Amount", "IGST Rate", "IGST Amount",
    "Invoice Footer Total", "IRN", "Source file",
    "Total Taxable", "Total CGST", "Total SGST", "Total IGST", "Invoice Total", "status">>
preferred_cols ==
  <<"Invoice number", "Invoice date", "Supplier GSTIN", "Supplier name", "Supplier address",
    "Item description", "Item HSN code", "Quantity", "Unit", "Unit Price", "Taxable Amount",
    "CGST Rate", "CGST Amount", "SGST Rate", "SGST Amount", "IGST Rate", "IGST Amount",
    "Invoice Footer Total", "Total Taxable", "Total CGST", "Total SGST", "Total IGST",
    "Invoice Total", "IRN", "Source file">>
Range(seq) == {seq[i] : i \in 1..Len(seq)}

\* pd.DataFrame(records): the columns in the order the keys appear, and the
\* records as rows (None is kept as None; pandas shows it as a missing value)
DataFrame(records) ==
  LET present(k) == \E i \in 1..Len(records) : k \in DOMAIN records[i]
  IN [columns |-> SelectSeq(ROW_KEYS, present), rows |-> records]

\* "if not res["error"] and res["rows"]: all_rows.extend(res["rows"])" with
\* the rows gathered so far dropped at a failed file
Collect_DropOnError(rows_so_far, r) ==
  IF r.error = "" /\ r.rows # <<>> THEN rows_so_far \o r.rows ELSE <<>>

\* "if not res["error"] and res["rows"]: all_rows.extend(res["rows"])"
Collect(rows_so_far, r) ==
  IF r.error = "" /\ r.rows # <<>> THEN rows_so_far \o r.rows ELSE rows_so_far

\* the placeholder rows with the path left whole
Placeholders_FullPath(paths) ==
  [i \in 1..Len(paths) |->
     [k \in {"Source file", "status"} |->
        IF k = "Source file" THEN paths[i] ELSE "no data parsed"]]

\* the placeholder rows, one for each file of the batch
Placeholders(paths) ==
  [i \in 1..Len(paths) |->
     [k \in {"Source file", "status"} |->
        IF k = "Source file" THEN basename(paths[i]) ELSE "no data parsed"]]

IsOther(c) == c \notin Range(preferred_cols)
\* df[cols]
Reordered(frame) ==
  [columns |-> SelectSeq(preferred_cols, LAMBDA c : c \in Range(frame.columns))
               \o SelectSeq(frame.columns, IsOther),
   rows |-> frame.rows]
\* "if df.empty: return pd.DataFrame([...])"
OrPlaceholders(frame, paths) ==
  IF frame.rows = <<>> THEN DataFrame(Placeholders(paths)) ELSE Reordered(frame)
\* what run_invoice_pipeline returns once the loop is over
Returned(rows, paths) == OrPlaceholders(DataFrame(rows), paths)

\* os.path.splitext(n)[1].lower() in wanted; the paths of the model are
\* written in lower case
wanted == {".pdf", ".png", ".jpg", ".jpeg", ".tif", ".tiff", ".bmp"}
IsWanted(path) == \E ext \in wanted : Len(path) > Len(ext) /\ SubSeq(path, Len(path) - Len(ext) + 1, Len(path)) = ext


(***************************************************************************)
(* The segmenter applied on its own                                        *)
(***************************************************************************)
\* longest text, in lines, handed to the segmenter
MaxSegLines == 3

SegLine ==
  { "Details of Goods",
    "1 Widget 100 PCS 10.00 1000.00 18 1180.00",
    "Taxable Amt 1000.00",
    "Sr.No Item",
    "2 Nut",
    "  7  Bolt",
    "M6 x 20",
    "12",
    " " }

RECURSIVE SeqsUpTo(_, _)
\* the sequences over S of length at most n
SeqsUpTo(S, n) ==
  IF n = 0 THEN {<<>>}
  ELSE LET shorter == SeqsUpTo(S, n - 1)
       IN shorter \cup {Append(q, x) : q \in {r \in shorter : Len(r) = n - 1}, x \in S}

SegText == {Join(ls, "\n") : ls \in SeqsUpTo(SegLine, MaxSegLines)}

NoSeg == [lines |-> <<>>, collected |-> <<>>, items |-> <<>>]
Idle == /\ disk = <<>>
        /\ file_paths = <<>>
        /\ cur = 0
        /\ all_rows = <<>>
        /\ df = [columns |-> <<>>, rows |-> <<>>]

InitSeg ==
  /\ pc = "seg_text"
  /\ arg \in SegText
  /\ res = NoSeg
  /\ ties = "up"
  /\ Idle

SegNormalize ==
  /\ pc = "seg_text"
  /\ res' = [res EXCEPT !.lines = NormalizeLines(arg)]
  /\ pc' = "seg_lines"
  /\ UNCHANGED <<disk, file_paths, cur, all_rows, df, arg, ties>>

SegCollect ==
  /\ pc = "seg_lines"
  /\ res' = [res EXCEPT !.collected = CollectItemBlock(res.lines)]
  /\ pc' = "seg_block"
  /\ UNCHANGED <<disk, file_paths, cur, all_rows, df, arg, ties>>

SegGroup ==
  /\ pc = "seg_block"
  /\ res' = [res EXCEPT !.items = GroupItems(res.collected)]
  /\ pc' = "seg_done"
  /\ UNCHANGED <<disk, file_paths, cur, all_rows, df, arg, ties>>

NextSeg == SegNormalize \/ SegCollect \/ SegGroup
SpecSeg == InitSeg /\ [][NextSeg]_vars


(***************************************************************************)
(* The tax split applied on its own                                        *)
(***************************************************************************)
TaxAmountText == {"1000.00", "1,234.50", "100.005", "0.50", "33.33", "0", "7", "1.2.3"}
TaxRateText == {"18", "5", "0.25", "12.5", "0", "28"}
TaxGstin == {"29ABCDE1234F1Z5", "27ABCDE1234F1Z5", "", "2", "929ABCDE1234F1Z"}

NoTax == [taxable_amt |-> 0, gst_rate |-> 0,
          split |-> [cgst_rate |-> 0, cgst_amt |-> 0, sgst_rate |-> 0, sgst_amt |-> 0,
                     igst_rate |-> 0, igst_amt |-> 0]]

InitTax ==
  /\ pc = "tax_text"
  /\ arg \in [amount : TaxAmountText, rate : TaxRateText, gstin : TaxGstin]
  /\ res = NoTax
  /\ ties \in TieSide
  /\ Idle

\* taxable_amt = safe_float(m.group(5), 0.0); gst_rate = safe_float(m.group(6), 0.0)
TaxCoerce ==
  /\ pc = "tax_text"
  /\ res' = [res EXCEPT !.taxable_amt = Val(safe_float(arg.amount, Float(0))),
                        !.gst_rate = Val(safe_float(arg.rate, Float(0)))]
  /\ pc' = "tax_floats"
  /\ UNCHANGED <<disk, file_paths, cur, all_rows, df, arg, ties>>

TaxSplit ==
  /\ pc = "tax_floats"
  /\ res' = [res EXCEPT !.split = apply_tax_split(arg.gstin, res.taxable_amt, res.gst_rate)]
  /\ pc' = "tax_done"
  /\ UNCHANGED <<disk, file_paths, cur, all_rows, df, arg, ties>>

NextTax == TaxCoerce \/ TaxSplit
SpecTax == InitTax /\ [][NextTax]_vars

RECURSIVE Gcd(_, _)
Gcd(a, b) == IF b = 0 THEN a ELSE Gcd(b, a % b)

\* amt (in units, a whole number of cents) is a cent nearest to the exact
\* amount * rate / 100
IsNearestCent(amt, amount, rate) ==
  LET den == UNIT * UNIT
      g1 == Gcd(den, amount)
      g2 == Gcd(den \div g1, rate)
      n == (amount \div g1) * (rate \div g2)
      d == den \div (g1 * g2)
      c == amt \div CENT
      off == IF c * d >= n THEN c * d - n ELSE n - c * d
  IN amt % CENT = 0 /\ 2 * off <= d

\* C7: with a tax ID that starts with "29", CGST rate = SGST rate = R/2, CGST
\* amount = SGST amount = A*(R/2)/100 rounded to the cent, IGST rate and
\* amount are 0, and CGST + SGST is within one cent of A*R/100 rounded to the
\* cent; with any other tax ID (the empty one too) IGST rate = R, IGST amount
\* = A*R/100 rounded to the cent, and the CGST and SGST rates and amounts
\* are 0.
C7_TaxSplit ==
  pc = "tax_done" =>
    LET A == res.taxable_amt
        R == res.gst_rate
        G == arg.gstin
        t == res.split
    IN IF Len(G) >= 2 /\ Ch(G, 1) = "2" /\ Ch(G, 2) = "9"
       THEN /\ t.cgst_rate = t.sgst_rate
            /\ 2 * t.cgst_rate = R
            /\ t.cgst_amt = t.sgst_amt
            /\ IsNearestCent(t.cgst_amt, A, R \div 2)
            /\ t.igst_rate = 0
            /\ t.igst_amt = 0
            /\ \E k \in {0 - 1, 0, 1} : IsNearestCent(t.cgst_amt + t.sgst_amt + k * CENT, A, R)
       ELSE /\ t.igst_rate = R
            /\ IsNearestCent(t.igst_amt, A, R)
            /\ t.cgst_rate = 0
            /\ t.cgst_amt = 0
            /\ t.sgst_rate = 0
            /\ t.sgst_amt = 0

\* a split whose two halves do not add up to the rounded whole tax (33.33
\* at 5%: 0.83 + 0.83 against 1.67)
C7_Witness ==
  /\ pc = "tax_done"
  /\ StartsWith(arg.gstin, "29")
  /\ arg.amount = "33.33"
  /\ arg.rate = "5"
  /\ res.split.cgst_amt > 0
  /\ res.split.cgst_amt + res.split.sgst_amt # RoundedTax(res.taxable_amt, res.gst_rate)


(***************************************************************************)
(* The upload page and run_invoice_pipeline                                *)
(***************************************************************************)
\* most files in one upload
MaxDocs == 2

Page1 == "Invoice No: A1\nGSTIN 29ABCDE1234F1Z5"
Page2 == "1 Widget 123456 10 PCS 10.00 1000.00 18 1180.00\n2 Nut 998877 5.00 100.004 5 105.00"
TextFile(pages) == [opens |-> TRUE, pages |-> pages, ocr |-> ""]
\* the files a user may upload: two invoices that share a file name, a scan
\* without text layer, an image, an invoice without items, an invoice with an
\* IRN label and no number, and a file of an unsupported type from a ZIP
POOL ==
  [path \in {"/w/a.pdf", "/w/sub/a.pdf", "/w/b.pdf", "/w/c.png", "/w/d.pdf", "/w/e.pdf",
             "/w/notes.txt"} |->
     CASE path = "/w/a.pdf" -> TextFile(<<Page1, "", Page2>>)
       [] path = "/w/sub/a.pdf" -> TextFile(<<"1 Bolt 445566 2.00 50.00 12 56.00">>)
       [] path = "/w/b.pdf" -> TextFile(<<"", "">>)
       [] path = "/w/c.png" -> [opens |-> FALSE, pages |-> <<>>, ocr |-> "1 Bolt 445566 2.00 50.00 12 56.00"]
       [] path = "/w/d.pdf" -> TextFile(<<"Invoice No: D4\nTotal Inv Amt 56.00">>)
       [] path = "/w/e.pdf" -> TextFile(<<"IRN: pending\n1 Bolt 445566 2.00 50.00 12 56.00">>)
       [] OTHER -> TextFile(<<"notes">>)]

\* the orders in which os.walk may list the files of S
Orders(S) == {q \in SeqsUpTo(S, Cardinality(S)) : Len(q) = Cardinality(S) /\ Range(q) = S}

Init ==
  /\ pc = "page"
  /\ Idle
  /\ arg = <<>>
  /\ res = <<>>
  /\ ties = "up"

\* main(), "if run:" up to the call of run_invoice_pipeline: the uploads are
\* saved, the supported files collected, and an upload without any is refused
Upload ==
  /\ pc = "page"
  /\ \E uploads \in SUBSET DOMAIN POOL :
       /\ uploads # {}
       /\ Cardinality(uploads) <= MaxDocs
       /\ disk' = [path \in uploads |-> POOL[path]]
       /\ \E invoice_files \in Orders({path \in uploads : IsWanted(path)}) :
            IF invoice_files = <<>>
            THEN /\ pc' = "stopped"
                 /\ UNCHANGED file_paths
            ELSE /\ pc' = "loop"
                 /\ file_paths' = invoice_files
  /\ cur' = 0
  /\ all_rows' = <<>>
  /\ UNCHANGED <<df, arg, res, ties>>

\* one turn of "for p in file_paths"
ProcessNext ==
  /\ pc = "loop"
  /\ cur < Len(file_paths)
  /\ res' = process_file(file_paths[cur + 1])
  /\ all_rows' = Collect(all_rows, res')
  /\ cur' = cur + 1
  /\ UNCHANGED <<disk, pc, file_paths, df, arg, ties>>

\* the end of run_invoice_pipeline
Finish ==
  /\ pc = "loop"
  /\ cur = Len(file_paths)
  /\ df' = Returned(all_rows, file_paths)
  /\ pc' = "done"
  /\ UNCHANGED <<disk, file_paths, cur, all_rows, arg, res, ties>>

Next == Upload \/ ProcessNext \/ Finish
Spec == Init /\ [][Next]_vars

(***************************************************************************)
(* process_file applied to one document                                    *)
(***************************************************************************)
\* most item lines in the document
MaxItems == 2

IrnLine == {"", "IRN: pending", "IRN: a1b2c3"}
GstinLine == {"", "GSTIN 29ABCDE1234F1Z5"}
\* an item the primary pattern parses, one the fallback pattern parses (its
\* taxable amount has three decimals), and one that neither parses
ItemLine ==
  {"1 Widget 123456 10 PCS 10.00 1000.00 18 1180.00",
   "2 Nut 998877 5.00 100.004 5 105.00",
   "3 Bolt"}
\* footers: none, one with an amount, one of zero, one without a number
FooterLine == {"", "Total Inv Amt 1180.00", "Total Inv Amt 0", "Total Invoice Amt ,"}

DocParts == [irn : IrnLine, gstin : GstinLine, items : SeqsUpTo(ItemLine, MaxItems),
             footer : FooterLine]
DocText(parts) ==
  Join(SelectSeq(<<parts.irn, parts.gstin>> \o parts.items \o <<parts.footer>>, NonEmpty), "\n")
DOC_PATH == "/w/doc.pdf"

InitDoc ==
  /\ pc = "doc_file"
  /\ arg \in DocParts
  /\ disk = [path \in {DOC_PATH} |-> TextFile(<<DocText(arg)>>)]
  /\ file_paths = <<>>
  /\ cur = 0
  /\ all_rows = <<>>
  /\ df = [columns |-> <<>>, rows |-> <<>>]
  /\ res = <<>>
  /\ ties = "up"

DocProcess ==
  /\ pc = "doc_file"
  /\ res' = process_file(DOC_PATH)
  /\ pc' = "doc_done"
  /\ UNCHANGED <<disk, file_paths, cur, all_rows, df, arg, ties>>

NextDoc == DocProcess
SpecDoc == InitDoc /\ [][NextDoc]_vars

(***************************************************************************)
(* find_supplier_block applied on its own                                  *)
(***************************************************************************)
\* most lines handed to find_supplier_block
MaxSupLines == 3

SupLine ==
  {"Supplier Recipient",
   "29ABCDE1234F1Z5 27PQRSX5678K1Z2",
   "Supplier",
   "Recipient",
   "Acme Tools Pvt Ltd",
   "GSTIN: 29ABCDE1234F1Z5",
   "Ship To"}

InitSup ==
  /\ pc = "sup_lines"
  /\ arg \in SeqsUpTo(SupLine, MaxSupLines)
  /\ res = <<>>
  /\ ties = "up"
  /\ Idle

SupLocate ==
  /\ pc = "sup_lines"
  /\ res' = find_supplier_block(arg)
  /\ pc' = "sup_done"
  /\ UNCHANGED <<disk, file_paths, cur, all_rows, df, arg, ties>>

NextSup == SupLocate
SpecSup == InitSup /\ [][NextSup]_vars


(***************************************************************************)
(* build_description walked line by line                                   *)
(***************************************************************************)
\* most lines of one item
MaxDescLines == 3

\* first lines of an item: each starts with a serial number (ITEM_START_RE)
DescFirstLine ==
  {"1 Widget 123456 10 PCS",
   "2 Steel rod",
   "1234567 Spare",
   "3 998877 5 NOS"}

\* following lines of an item: none starts an item
DescMoreLine ==
  {"Blue colour",
   "Rate per Unit",
   "Grade 304 steel 7318",
   "Batch 20240115",
   "Stainless bolt 731815",
   "A1 2345 6789"}

DescItems ==
  {<<f>> \o m : f \in DescFirstLine, m \in SeqsUpTo(DescMoreLine, MaxDescLines - 1)}

InitDesc ==
  /\ pc = "desc_loop"
  /\ arg \in DescItems
  /\ res = [idx |-> 0, parts |-> <<>>, hsn_seen |-> FALSE, desc |-> ""]
  /\ ties = "up"
  /\ Idle

\* one turn of "for idx, raw in enumerate(item_lines)"
DescTurn ==
  /\ pc = "desc_loop"
  /\ res.idx < Len(arg)
  /\ res' = DescBody(res.parts, res.hsn_seen, DescLine(Strip(arg[res.idx + 1]), res.idx))
               @@ [idx |-> res.idx + 1, desc |-> ""]
  /\ UNCHANGED <<disk, pc, file_paths, cur, all_rows, df, arg, ties>>

\* return " ".join(p for p in parts if p).replace("  ", " ").strip(" ~").strip()
DescReturn ==
  /\ pc = "desc_loop"
  /\ res.idx >= Len(arg)
  /\ res' = [res EXCEPT !.desc =
               Strip(StripChars(ReplaceDoubleSpace(Join(SelectSeq(res.parts, NonEmpty), " ")),
                                {" ", "~"}))]
  /\ pc' = "desc_joined"
  /\ UNCHANGED <<disk, file_paths, cur, all_rows, df, arg, ties>>

NextDesc == DescTurn \/ DescReturn
SpecDesc == InitDesc /\ [][NextDesc]_vars


(***************************************************************************)
(* Claims about the segmenter                                              *)
(***************************************************************************)
\* a line that begins, after optional blanks, with an integer followed by
\* a blank
LeadingInteger(ln) ==
  \E a \in 1..Len(ln) : \E b \in a..(Len(ln) - 1) :
    /\ \A i \in 1..(a - 1) : Ch(ln, i) \in WS
    /\ \A i \in a..b : Ch(ln, i) \in DIGIT
    /\ Ch(ln, b + 1) \in WS

Markers(ls) == {i \in 1..Len(ls) : LeadingInteger(ls[i])}

RECURSIVE FlattenRange(_, _, _)
FlattenRange(groups, a, b) ==
  IF a > b THEN <<>>
  ELSE IF a = b THEN groups[a]
  ELSE LET mid == (a + b) \div 2
       IN FlattenRange(groups, a, mid) \o FlattenRange(groups, mid + 1, b)
\* the groups' lines, one after the other
Flatten(groups) == FlattenRange(groups, 1, Len(groups))

\* the lines after the first "Details of Goods" line up to and including
\* the first later line that holds "Taxable Amt" or "Total Inv" (to the
\* end when there is none), label lines left out
DetailsRange(lines) ==
  LET D == {i \in 1..Len(lines) : IsDetailsLine(lines[i])}
      notLabel(ln) == ~IsDetailsLine(ln)
  IN IF D = {} THEN <<>>
     ELSE LET d == MinOf(D)
              E == {i \in (d + 1)..Len(lines) : notLabel(lines[i]) /\ IsBlockEndLine(lines[i])}
              e == IF E = {} THEN Len(lines) ELSE MinOf(E)
          IN SelectSeq(SubSeq(lines, d + 1, e), notLabel)

\* at most WINDOW lines from the first "Sr No" line on
SrNoRange(lines) ==
  LET H == {i \in 1..Len(lines) : IsSrNoLine(lines[i])}
  IN IF H = {} THEN <<>>
     ELSE LET h == MinOf(H)
              n == IF Len(lines) - h + 1 < WINDOW THEN Len(lines) - h + 1 ELSE WINDOW
          IN [k \in 1..n |-> lines[h + k - 1]]

SelectedRange(lines) ==
  IF DetailsRange(lines) # <<>> THEN DetailsRange(lines)
  ELSE IF SrNoRange(lines) # <<>> THEN SrNoRange(lines)
  ELSE lines

\* C9 as stated: the range is chosen by the three-step preference, and the
\* segmenter never ends with zero item groups while a line of the document
\* (which the last step would select) starts an item.
C9_AsStated ==
  pc = "seg_done" =>
    /\ res.collected = SelectedRange(res.lines)
    /\ (res.items = <<>> => Markers(res.lines) = {})

\* C9 amended: the range is the lines after the first "Details of Goods"
\* line up to and including the first line holding "Taxable Amt" or "Total
\* Inv" (to the end if none, repeated label lines skipped); only if that
\* range is empty, the window of at most 200 lines from the first "Sr No"
\* line; only if that is empty too, every line.  A later step is tried only
\* when the earlier range is empty: the groups are those of the selected
\* range alone, none when it holds no item start.
C9_RangePreference ==
  pc = "seg_done" =>
    /\ res.collected = SelectedRange(res.lines)
    /\ (res.items = <<>> <=> Markers(res.collected) = {})

\* a non-empty "Details of Goods" range without an item start was selected
\* and the result is zero groups, although the document has an item start
C9_Witness ==
  /\ pc = "seg_done"
  /\ DetailsRange(res.lines) # <<>>
  /\ res.collected = DetailsRange(res.lines)
  /\ res.items = <<>>
  /\ Markers(res.lines) # {}

ExampleText ==
  "Details of Goods\n1 Widget 100 PCS 10.00 1000.00 18 1180.00\nTaxable Amt 1000.00"

\* C10: in the selected range there are as many item groups as lines that
\* begin with an integer followed by a blank; each group starts with one
\* such line and holds no other; the groups, in order, are exactly the
\* lines of the range from the first such line on (lines before it are in
\* no group); a range without such a line gives no group; the example text
\* gives exactly one group, holding its middle line.
C10_Groups ==
  pc = "seg_done" =>
    LET c == res.collected
        it == res.items
    IN /\ Len(it) = Cardinality(Markers(c))
       /\ \A k \in 1..Len(it) :
            /\ it[k] # <<>>
            /\ LeadingInteger(it[k][1])
            /\ \A j \in 2..Len(it[k]) : ~LeadingInteger(it[k][j])
       /\ Flatten(it) = (IF Markers(c) = {} THEN <<>> ELSE SubSeq(c, MinOf(Markers(c)), Len(c)))
       /\ (arg = ExampleText =>
             /\ Len(it) = 1
             /\ \E j \in 1..Len(it[1]) : it[1][j] = "1 Widget 100 PCS 10.00 1000.00 18 1180.00")

\* a range with a line before the first item start and a group of two lines
C10_Witness ==
  /\ pc = "seg_done"
  /\ res.items # <<>>
  /\ ~LeadingInteger(res.collected[1])
  /\ \E k \in 1..Len(res.items) : Len(res.items[k]) >= 2

(***************************************************************************)
(* Claims about the batch driver                                           *)
(***************************************************************************)
\* the rows a document gives when it is processed on its own, none if it fails
OwnRows(path) == IF process_file(path).error = "" THEN process_file(path).rows ELSE <<>>
RECURSIVE ConcatRows(_, _)
\* the rows of the first n documents of paths, one document after the other
ConcatRows(paths, n) ==
  IF n = 0 THEN <<>> ELSE ConcatRows(paths, n - 1) \o OwnRows(paths[n])

\* C1: after each turn of the loop the rows gathered so far are the rows of
\* the documents processed so far, each as it comes out of the document on
\* its own, in input order; a failed document adds nothing, takes nothing
\* away, and the loop goes on to the last document; when at least one
\* document gave rows, the returned frame holds exactly these rows.
C1_Concatenation ==
  /\ pc = "loop" => all_rows = ConcatRows(file_paths, cur)
  /\ pc = "done" =>
       /\ cur = Len(file_paths)
       /\ all_rows = ConcatRows(file_paths, Len(file_paths))
       /\ all_rows # <<>> => df.rows = all_rows

\* a batch whose first document has no text and whose second gives two rows
C1_Witness ==
  /\ pc = "done"
  /\ Len(file_paths) = 2
  /\ process_file(file_paths[1]).error = "No text extracted"
  /\ Len(OwnRows(file_paths[2])) = 2
  /\ df.rows = OwnRows(file_paths[2])

\* C2: when no document of the batch gave a row, the frame returned holds
\* one placeholder for each input document, in input order, with the file
\* name of the document and the status "no data parsed"; when some document
\* gave a row, the frame holds the gathered rows and no placeholder; the
\* frame is never empty.
C2_Placeholders ==
  pc = "done" =>
    /\ df.rows # <<>>
    /\ (all_rows = <<>>) = (\A i \in 1..Len(file_paths) : process_file(file_paths[i]).error # "")
    /\ IF all_rows = <<>>
       THEN /\ Len(df.rows) = Len(file_paths)
            /\ df.columns = <<"Source file", "status">>
            /\ \A i \in 1..Len(file_paths) :
                 /\ DOMAIN df.rows[i] = {"Source file", "status"}
                 /\ df.rows[i]["Source file"] = basename(file_paths[i])
                 /\ df.rows[i]["status"] = "no data parsed"
       ELSE /\ Len(df.rows) = Len(all_rows)
            /\ "status" \notin Range(df.columns)
            /\ \A i \in 1..Len(df.rows) : "status" \notin DOMAIN df.rows[i]

\* a batch of two documents in different folders that both fail
C2_Witness ==
  /\ pc = "done"
  /\ Len(file_paths) = 2
  /\ all_rows = <<>>
  /\ file_paths[1] # basename(file_paths[1])
  /\ Len(df.rows) = 2

(***************************************************************************)
(* Claims about one document                                               *)
(***************************************************************************)
\* the text of the document, its item groups, and what they are
TextOfDoc == text_from_pdf(DOC_PATH)
ItemsOfDoc == GroupItems(CollectItemBlock(NormalizeLines(TextOfDoc)))
\* an item that matches neither the primary nor the fallback pattern
IsUnparsed(it) ==
  /\ ~Searches(PRIMARY_RE, FlatText(it))
  /\ ~Searches(FALLBACK_RE, FlatText(it))
\* the text holds the label "IRN" and no "IRN" followed by a hexadecimal token
IrnLabelOnly(text) == Searches(IRN_LABEL_RE, text) /\ ~Searches(IRN_RE, text)
\* the document was processed and text was obtained
DocRead == pc = "doc_done" /\ TextOfDoc # ""
\* the document was processed and gave rows
DocGaveRows == pc = "doc_done" /\ res.error = ""

\* C3 as stated, for the documents whose IRN lookup does not raise: no item
\* group, or only items that match neither pattern, gives the error "No rows
\* extracted" and no rows.
C3_AsStated ==
  (/\ DocRead
   /\ ~IrnLabelOnly(TextOfDoc)
   /\ \A k \in 1..Len(ItemsOfDoc) : IsUnparsed(ItemsOfDoc[k]))
  => res.error = "No rows extracted" /\ res.rows = None

\* C3: a document with text and without item group gives the error "No rows
\* extracted" and no rows; a document with item groups gives one row for
\* each group and no error, and the row of an item that matches neither
\* pattern has its numeric fields at their defaults; if the text holds the
\* label "IRN" without a hexadecimal token the error is the one the IRN
\* lookup raises, whatever the items.
C3_ZeroGroups ==
  DocRead =>
    IF IrnLabelOnly(TextOfDoc) THEN res.error = NO_GROUP /\ res.rows = None
    ELSE IF ItemsOfDoc = <<>> THEN res.error = "No rows extracted" /\ res.rows = None
    ELSE /\ res.error = ""
         /\ Len(res.rows) = Len(ItemsOfDoc)
         /\ \A k \in 1..Len(ItemsOfDoc) :
              IsUnparsed(ItemsOfDoc[k]) =>
                /\ res.rows[k]["Item HSN code"] = ""
                /\ res.rows[k]["Quantity"] = None
                /\ res.rows[k]["Unit Price"] = None
                /\ res.rows[k]["Taxable Amount"] = None
                /\ res.rows[k]["IGST Amount"] = 0

\* a document whose only item matches neither pattern, and which gives a row
C3_Witness ==
  /\ DocRead
  /\ ~IrnLabelOnly(TextOfDoc)
  /\ Len(ItemsOfDoc) = 1
  /\ IsUnparsed(ItemsOfDoc[1])
  /\ res.error = ""
  /\ Len(res.rows) = 1

\* C4 as stated: a document with text and item groups gives its item rows
\* whatever header or item field fails to match, and with the label "IRN"
\* without a hexadecimal token the rows carry the IRN "".
C4_AsStated ==
  (DocRead /\ ItemsOfDoc # <<>>) =>
    /\ res.error = ""
    /\ Len(res.rows) = Len(ItemsOfDoc)
    /\ IrnLabelOnly(TextOfDoc) => \A k \in 1..Len(res.rows) : res.rows[k]["IRN"] = ""

\* what a row adds to the total of column col
Amount(r, col) ==
  IF col = "Taxable Amount" THEN (IF r[col] = None THEN 0 ELSE Val(r[col])) ELSE r[col]
RECURSIVE ColumnSum(_, _, _)
\* the sum of column col over the first n rows
ColumnSum(rows, col, n) ==
  IF n = 0 THEN 0 ELSE ColumnSum(rows, col, n - 1) + Amount(rows[n], col)
\* the sum of the four running totals of the document
SumOfFour(rows) ==
  ColumnSum(rows, "Taxable Amount", Len(rows)) + ColumnSum(rows, "CGST Amount", Len(rows))
  + ColumnSum(rows, "SGST Amount", Len(rows)) + ColumnSum(rows, "IGST Amount", Len(rows))
\* t is a whole number of cents and no cent is nearer to x
IsRounded(t, x) == t % CENT = 0 /\ 2 * t <= 2 * x + CENT /\ 2 * x <= 2 * t + CENT

\* C5: in the rows of a document the Invoice Total is the footer total when
\* one was found and is not zero, and else the sum of the four running
\* totals rounded to the cent; without a footer line the Invoice Footer
\* Total is None, with a footer of 0 it is 0.0, with a footer of 1180.00 it
\* is 1180.0.
C5_InvoiceTotal ==
  DocGaveRows =>
    \A k \in 1..Len(res.rows) :
      /\ arg.footer = "" => res.rows[k]["Invoice Footer Total"] = None
      /\ arg.footer = "Total Inv Amt 0" => res.rows[k]["Invoice Footer Total"] = Float(0)
      /\ arg.footer = "Total Inv Amt 1180.00" =>
           res.rows[k]["Invoice Footer Total"] = Float(1180 * UNIT)
      /\ IF /\ res.rows[k]["Invoice Footer Total"] # None
            /\ Val(res.rows[k]["Invoice Footer Total"]) # 0
         THEN res.rows[k]["Invoice Total"] = Val(res.rows[k]["Invoice Footer Total"])
         ELSE IsRounded(res.rows[k]["Invoice Total"], SumOfFour(res.rows))

\* a document whose footer total differs from the sum of its running totals
C5_Witness ==
  /\ DocGaveRows
  /\ res.rows[1]["Invoice Footer Total"] = Float(1180 * UNIT)
  /\ res.rows[1]["Invoice Total"] = 1180 * UNIT
  /\ SumOfFour(res.rows) # 0
  /\ SumOfFour(res.rows) # 1180 * UNIT

\* every row carries the same five totals
SameTotals(rows) ==
  \A k \in 1..Len(rows) : \A c \in TOTAL_COLS : rows[k][c] = rows[1][c]
\* the rows of the unmatched items, and only they, have no taxable amount,
\* and their tax amounts are zero
UnmatchedAddNothing(rows, items) ==
  \A k \in 1..Len(rows) :
    /\ (rows[k]["Taxable Amount"] = None) = IsUnparsed(items[k])
    /\ IsUnparsed(items[k]) =>
         rows[k]["CGST Amount"] = 0 /\ rows[k]["SGST Amount"] = 0 /\ rows[k]["IGST Amount"] = 0

\* C6 as stated: every row of a document carries the same totals, and each
\* of the four totals equals the sum of the column over the matched items.
C6_AsStated ==
  DocGaveRows =>
    /\ SameTotals(res.rows)
    /\ UnmatchedAddNothing(res.rows, ItemsOfDoc)
    /\ \A k \in 1..Len(res.rows) :
         /\ res.rows[k]["Total Taxable"] = ColumnSum(res.rows, "Taxable Amount", Len(res.rows))
         /\ res.rows[k]["Total CGST"] = ColumnSum(res.rows, "CGST Amount", Len(res.rows))
         /\ res.rows[k]["Total SGST"] = ColumnSum(res.rows, "SGST Amount", Len(res.rows))
         /\ res.rows[k]["Total IGST"] = ColumnSum(res.rows, "IGST Amount", Len(res.rows))

\* C6: every row of a document carries the same five totals, and each of the
\* four totals is the sum of its column over the matched items of the
\* document, rounded to the cent; the unmatched items add nothing.
C6_TotalsBroadcast ==
  DocGaveRows =>
    /\ SameTotals(res.rows)
    /\ UnmatchedAddNothing(res.rows, ItemsOfDoc)
    /\ \A k \in 1..Len(res.rows) :
         /\ IsRounded(res.rows[k]["Total Taxable"],
                      ColumnSum(res.rows, "Taxable Amount", Len(res.rows)))
         /\ IsRounded(res.rows[k]["Total CGST"], ColumnSum(res.rows, "CGST Amount", Len(res.rows)))
         /\ IsRounded(res.rows[k]["Total SGST"], ColumnSum(res.rows, "SGST Amount", Len(res.rows)))
         /\ IsRounded(res.rows[k]["Total IGST"], ColumnSum(res.rows, "IGST Amount", Len(res.rows)))

\* a document with a matched item of 100.004 and an unmatched item: both
\* rows carry the Total Taxable 100.0
C6_Witness ==
  /\ DocGaveRows
  /\ Len(res.rows) = 2
  /\ res.rows[1]["Taxable Amount"] = Float(100 * UNIT + 8)
  /\ res.rows[2]["Taxable Amount"] = None
  /\ res.rows[1]["Total Taxable"] = 100 * UNIT
  /\ res.rows[2]["Total Taxable"] = 100 * UNIT

(***************************************************************************)
(* Claims about the supplier locator                                       *)
(***************************************************************************)
\* no line holds both labels, and some line begins with the label "Supplier"
SectionLabelOnly(lines) ==
  /\ \A i \in 1..Len(lines) :
       ~(Searches(SUPPLIER_WORD_RE, lines[i]) /\ Searches(RECIPIENT_WORD_RE, lines[i]))
  /\ \E i \in 1..Len(lines) : Searches(SUPPLIER_LABEL_RE, lines[i])

\* C8 as stated: without grid header and with a section label the result is
\* what the section slice gives.
C8_AsStated ==
  (pc = "sup_done" /\ SectionLabelOnly(arg)) => res = SectionTier(arg)

\* C8: without grid header and with a section label, the result is what the
\* section slice gives whenever the slice gives a tax ID, a name or an
\* address, whatever tax ID stands elsewhere in the text; when the slice is
\* empty or gives none of the three, the result is that of the generic tier.
C8_SectionBeforeGeneric ==
  (pc = "sup_done" /\ SectionLabelOnly(arg)) =>
    IF Found(SectionTier(arg)) THEN res = SectionTier(arg) ELSE res = GenericTier(arg)

\* a tax ID stands before the section label, and the two tiers differ
C8_Witness ==
  /\ pc = "sup_done"
  /\ SectionLabelOnly(arg)
  /\ Found(SectionTier(arg))
  /\ GenericTier(arg)[1] # ""
  /\ GenericTier(arg) # SectionTier(arg)
  /\ res = SectionTier(arg)


(***************************************************************************)
(* Claims about the description builder                                    *)
(***************************************************************************)
\* line i of the item as the loop reads it: stripped, and on the first
\* line without the serial number
Cleaned(i) == DescLine(Strip(arg[i]), i - 1)
\* whether the line read holds a token of 6 to 8 digits
HasCode(i) == Searches(HSN_RE, Cleaned(i))
\* the first line that holds one, or 0
CodeIndex ==
  IF \E i \in 1..Len(arg) : HasCode(i) THEN MinOf({i \in 1..Len(arg) : HasCode(i)}) ELSE 0
\* what a line gives: the code line the text left of the token when it has
\* a letter, any other line itself when it is descriptive
Contribution(i) ==
  IF i = CodeIndex
  THEN AppendIfLetters(<<>>, LeftOf(Cleaned(i), re_search(HSN_RE, Cleaned(i))))
  ELSE IF IsDescriptive(Cleaned(i)) THEN <<Cleaned(i)>> ELSE <<>>
\* as the claim has it: nothing from the lines after the code line
ContributionAsStated(i) ==
  IF CodeIndex # 0 /\ i > CodeIndex THEN <<>> ELSE Contribution(i)
RECURSIVE Contributions(_)
Contributions(n) == IF n = 0 THEN <<>> ELSE Contributions(n - 1) \o Contribution(n)
RECURSIVE ContributionsAsStated(_)
ContributionsAsStated(n) ==
  IF n = 0 THEN <<>> ELSE ContributionsAsStated(n - 1) \o ContributionAsStated(n)

\* C11 as stated: the lines after the code line add nothing to the
\* description, so the parts at the end of the walk are those of the lines
\* up to the code line.
C11_AsStated ==
  pc = "desc_joined" => res.parts = ContributionsAsStated(Len(arg))

\* the state of the walk after res.idx lines
DescWalked ==
  /\ res.hsn_seen = (CodeIndex \in 1..res.idx)
  /\ res.parts = Contributions(res.idx)
  /\ pc = "desc_joined" => res.idx = Len(arg) /\ res.desc = build_description(arg)
\* the flag is never cleared, and it is set on the first line that holds a
\* code and on no other
DescFlagStep ==
  /\ res.hsn_seen => res'.hsn_seen
  /\ ~res.hsn_seen /\ res'.hsn_seen => res'.idx = CodeIndex

\* C11: build_description walks the lines of an item with the flag hsn_seen
\* as its state.  The flag is set exactly once, on the first line that, once
\* stripped (and, for the first line, without its serial number), holds a
\* token of 6 to 8 digits, and it is never cleared.  That line gives only
\* the text left of the token, and only if that text has a letter.  Every
\* other line, before or after the code line and whether or not it holds
\* such a token itself, is appended whole if and only if it has a letter,
\* no stoplist word, and at least as many letters as digits.  The value
\* returned is the one these parts give.
C11_CodeLineOnce == []DescWalked /\ [][DescFlagStep]_vars

\* a walk that ended with the code line before the last line, and the last
\* line, which holds a token of its own, appended whole
C11_Witness ==
  /\ pc = "desc_joined"
  /\ CodeIndex \in 1..(Len(arg) - 1)
  /\ HasCode(Len(arg))
  /\ res.hsn_seen
  /\ Len(res.parts) >= 2
  /\ res.parts[Len(res.parts)] = Strip(arg[Len(arg)])
====
